---- MODULE Spec2Model ----
(***************************************************************************)
(* A model of main.py: the simulation of a peer-review decision process.   *)
(* Manuscripts are integers 1..10, a review is a manuscript plus two       *)
(* normal noise draws clipped to [1, 10], and two policies (average, vote) *)
(* turn R reviews of each manuscript into an accept/reject decision whose  *)
(* accuracy is measured against manuscript >= threshold.                   *)
(*                                                                         *)
(* Scores and noise are integers here: a normal draw with standard         *)
(* deviation sd is sd * z for a deviate z, and the deviates are cut to the *)
(* two points -1 and 1.  A mean is kept as the exact fraction sum/count.   *)
(***************************************************************************)
EXTENDS Integers, Sequences, FiniteSets, TLC

VARIABLES
    manuscripts,  \* the batch the driving script holds
    last,         \* the call that has just returned: arguments and result
    rng,          \* the state of numpy's global generator (SpecSeeded)
    seeded,       \* <<s>> when the batch came from create_manuscripts(seed=s)
    drawn         \* draws taken from the stream since it was last seeded

vars == <<manuscripts, last, rng, seeded, drawn>>

----------------------------------------------------------------------------
(* Program constants *)

LowScore == 1
HighScore == 10
ClipMin == 1
ClipMax == 10

(* Bounds of the model *)

MaxN == 2          \* manuscripts in a batch
MaxR == 4          \* review rounds of a policy call
MaxCells == 4      \* manuscripts * rounds of one policy call
MaxSd == 1         \* largest noise standard deviation of a policy call
MaxReviewSd == 3   \* noise standard deviations of a single review call
MaxVoteCells == 3  \* entries of the review rounds handed to count_votes
MaxSeed == 1       \* seeds 0..MaxSeed
MaxDrawn == 12     \* draws from a seeded stream
Modulus == 16      \* states of the generator

Scores == LowScore..HighScore
\* The thresholds tried: the two ends of the score range and its middle
Thresholds == {LowScore, (LowScore + HighScore) \div 2, HighScore}
\* The noise standard deviations of a policy call: no noise, or the largest
PolicySds == {0, MaxSd}
\* A standard normal deviate is one standard deviation below or above 0
Deviates == {0 - 1, 1}
RngStates == 0..(Modulus - 1)

----------------------------------------------------------------------------
(* numpy *)

\* np.clip(a, a_min, a_max) on one element: minimum(maximum(a, a_min), a_max)
ClipNoUpper(x, lo, hi) == IF x < lo THEN lo ELSE x

Clip(x, lo, hi) ==
    LET raised == IF x < lo THEN lo ELSE x
    IN  IF raised > hi THEN hi ELSE raised

\* np.random.normal(scale=sd, size=n): loc + sd * z, one deviate per element
NormalSamples(sd, n) == [1..n -> {sd * z : z \in Deviates}]

\* np.random.randint(low=1, high=10 + 1, size=n)
RandintSamples(n) == [1..n -> Scores]

\* np.sum over the first k entries of f
RECURSIVE SumTo(_, _)
SumTo(f, k) == IF k = 0 THEN 0 ELSE f[k] + SumTo(f, k - 1)

SumSeq(s) == SumTo(s, Len(s))

----------------------------------------------------------------------------
(* main.py *)

\* A fraction num / den, the model's real number
Frac(n, d) == [num |-> n, den |-> d]

\* (num / den) >= t for den > 0
FracGeq(f, t) == f.num >= t * f.den

\* One round's noise: the two arrays review_manuscripts draws
Noise(imp, oth) == [imprecision_error |-> imp, other_error |-> oth]

\* Every way R rounds of noise can fall for a batch of n manuscripts
NoiseRounds(n, R, sd1, sd2) ==
    [1..R -> [imprecision_error : NormalSamples(sd1, n),
              other_error : NormalSamples(sd2, n)]]

review_manuscripts(batch, imprecision_error, other_error) ==
    LET number_of_manuscripts == Len(batch)
    IN  [i \in 1..number_of_manuscripts |->
            Clip(batch[i] + imprecision_error[i] + other_error[i],
                 ClipMin, ClipMax)]

is_above_threshold(scores, threshold) ==
    [i \in 1..Len(scores) |-> scores[i] >= threshold]

\* The list the policies build: one review_manuscripts call per round
ReviewRoundsReused(batch, number_of_reviews, noise) ==
    [r \in 1..number_of_reviews |->
        review_manuscripts(batch, noise[1].imprecision_error,
                           noise[1].other_error)]

ReviewRounds(batch, number_of_reviews, noise) ==
    [r \in 1..number_of_reviews |->
        review_manuscripts(batch, noise[r].imprecision_error,
                           noise[r].other_error)]

\* np.mean(list of arrays, axis=0)
MeanAxis0(arrays, n) ==
    [i \in 1..n |->
        Frac(SumSeq([r \in 1..Len(arrays) |-> arrays[r][i]]), Len(arrays))]

get_average_review_scores(batch, number_of_reviews, noise) ==
    LET reviews == ReviewRounds(batch, number_of_reviews, noise)
    IN  [reviews |-> reviews,
         average_review_scores |-> MeanAxis0(reviews, Len(batch))]

is_above_threshold_based_on_average(batch, number_of_reviews, threshold, noise) ==
    LET got == get_average_review_scores(batch, number_of_reviews, noise)
        average_review_scores == got.average_review_scores
    IN  [reviews |-> got.reviews,
         scores |-> average_review_scores,
         decisions |-> [i \in 1..Len(average_review_scores) |->
                          FracGeq(average_review_scores[i], threshold)]]

\* np.sum([review >= threshold for review in reviews], axis=0)
count_votes_strict(reviews, threshold) ==
    LET ballots == [r \in 1..Len(reviews) |->
                      [i \in 1..Len(reviews[r]) |-> reviews[r][i] > threshold]]
    IN  [i \in 1..Len(ballots[1]) |->
            SumSeq([r \in 1..Len(ballots) |-> IF ballots[r][i] THEN 1 ELSE 0])]

count_votes(reviews, threshold) ==
    LET ballots == [r \in 1..Len(reviews) |->
                      is_above_threshold(reviews[r], threshold)]
    IN  [i \in 1..Len(ballots[1]) |->
            SumSeq([r \in 1..Len(ballots) |-> IF ballots[r][i] THEN 1 ELSE 0])]

\* int(number_of_reviews / 2): true division, then truncation towards zero
IntHalfMajority(number_of_reviews) == (number_of_reviews \div 2) + 1

IntHalf(number_of_reviews) == number_of_reviews \div 2

is_above_threshold_based_on_vote(batch, number_of_reviews, threshold, noise) ==
    LET reviews == ReviewRounds(batch, number_of_reviews, noise)
        number_of_votes == count_votes(reviews, threshold)
    IN  [reviews |-> reviews,
         scores |-> number_of_votes,
         decisions |-> [i \in 1..Len(number_of_votes) |->
                          number_of_votes[i] >= IntHalf(number_of_reviews)]]

\* process(manuscripts=..., threshold=..., number_of_reviews=..., ...)
RunProcess(process, batch, number_of_reviews, threshold, noise) ==
    IF process = "average"
    THEN is_above_threshold_based_on_average(batch, number_of_reviews,
                                             threshold, noise)
    ELSE is_above_threshold_based_on_vote(batch, number_of_reviews,
                                          threshold, noise)

\* A numpy integer divided by a Python int: dividing by 0 is nan or inf (with a RuntimeWarning), not an exception
NumpyDivide(n, d) ==
    IF d = 0
    THEN [kind |-> IF n = 0 THEN "nan" ELSE "inf", num |-> n, den |-> d]
    ELSE [kind |-> "float", num |-> n, den |-> d]

\* np.sum(decisions == accurate_decisions) / len(manuscripts)
Agreement(batch, accurate_decisions, decisions) ==
    LET agree == [i \in 1..Len(decisions) |->
                    IF decisions[i] = accurate_decisions[i] THEN 1 ELSE 0]
    IN  NumpyDivide(SumSeq(agree), Len(batch))

accuracy_of_process_noisy_truth(batch, threshold, process, number_of_reviews, noise) ==
    LET run == RunProcess(process, batch, number_of_reviews, threshold, noise)
        accurate_decisions == is_above_threshold(run.reviews[1], threshold)
    IN  [accurate_decisions |-> accurate_decisions,
         run |-> run,
         accuracy |-> Agreement(batch, accurate_decisions, run.decisions)]

accuracy_of_process(batch, threshold, process, number_of_reviews, noise) ==
    LET accurate_decisions == is_above_threshold(batch, threshold)
        run == RunProcess(process, batch, number_of_reviews, threshold, noise)
    IN  [accurate_decisions |-> accurate_decisions,
         run |-> run,
         accuracy |-> Agreement(batch, accurate_decisions, run.decisions)]

\* create_manuscripts: values are the np.random.randint draws.  A negative
\* size makes randint raise ValueError; size 0 gives an empty array.
create_manuscripts(number_of_manuscripts, values) ==
    IF number_of_manuscripts < 0
    THEN [status |-> "error", result |-> << >>]
    ELSE [status |-> "ok", result |-> values]

----------------------------------------------------------------------------
(* The global generator np.random: a small linear congruential stream *)

Advance1(state) == (5 * state + 3) % Modulus

RECURSIVE Advance(_, _)
Advance(state, k) == IF k = 0 THEN state ELSE Advance(Advance1(state), k - 1)

SeedState(s) == (7 * s + 1) % Modulus

\* np.random.seed(seed): a given seed fixes the state, None takes fresh entropy
NpRandomSeedKeepsStream(state, seed, entropy) ==
    IF seed = << >> THEN entropy ELSE state

NpRandomSeed(state, seed, entropy) ==
    IF seed = << >> THEN entropy ELSE SeedState(seed[1])

\* The deviate and the score a generator state yields
Deviate(state) == IF (state \div 4) % 2 = 0 THEN 0 - 1 ELSE 1

StreamNormal(state, sd, n) ==
    [i \in 1..n |-> sd * Deviate(Advance(state, i - 1))]

StreamRandint(state, n) ==
    [i \in 1..n |-> LowScore + (Advance(state, i - 1) % (HighScore + 1 - LowScore))]

\* The noise of R consecutive review_manuscripts calls starting at state
StreamNoise(state, n, R, sd1, sd2) ==
    [r \in 1..R |->
        Noise(StreamNormal(Advance(state, 2 * n * (r - 1)), sd1, n),
              StreamNormal(Advance(state, 2 * n * (r - 1) + n), sd2, n))]

----------------------------------------------------------------------------
(* The driving script: one call at a time, its result held in last *)

\* test_count_votes: five rounds of three reviews, threshold 7
ExampleThreshold == 7
ExampleReviews ==
    << <<1, 5, 8>>, <<8, 8, 8>>, <<10, 9, 1>>, <<10, 1, 2>>, <<9, 9, 5>> >>

\* The review rounds handed to count_votes
ReviewLists ==
    UNION {[1..R -> [1..n -> Scores]] :
             <<R, n>> \in {c \in (1..MaxVoteCells) \X (1..MaxVoteCells) :
                             c[1] * c[2] <= MaxVoteCells}}
    \cup {ExampleReviews}

SeedArgs == {<< >>} \cup {<<s>> : s \in 0..MaxSeed}

NoAccuracy == [kind |-> "none", num |-> 0, den |-> 0]

Blank ==
    [op |-> "none", status |-> "ok", number_of_manuscripts |-> 0,
     seed |-> << >>, process |-> "none", threshold |-> 0,
     number_of_reviews |-> 0, imprecision_error_sd |-> 0,
     other_error_sd |-> 0, noise |-> << >>, reviews |-> << >>,
     scores |-> << >>, decisions |-> << >>, accurate_decisions |-> << >>,
     accuracy |-> NoAccuracy, result |-> << >>,
     start |-> 0]

Idle == last.op = "none"

CreateReturn(n, seed, values) ==
    \E out \in {create_manuscripts(n, values)} :
        /\ last' = [Blank EXCEPT !.op = "create_manuscripts",
                                 !.status = out.status,
                                 !.number_of_manuscripts = n,
                                 !.seed = seed,
                                 !.result = out.result]
        /\ manuscripts' = IF out.status = "ok" THEN out.result ELSE manuscripts

ReviewReturn(sd1, sd2, imp, oth, at) ==
    \E reviews \in {review_manuscripts(manuscripts, imp, oth)} :
        /\ last' = [Blank EXCEPT !.op = "review_manuscripts",
                                 !.imprecision_error_sd = sd1,
                                 !.other_error_sd = sd2,
                                 !.noise = << Noise(imp, oth) >>,
                                 !.reviews = << reviews >>,
                                 !.result = reviews,
                                 !.start = at]
        /\ UNCHANGED manuscripts

PolicyReturn(process, R, T, sd1, sd2, noise, at) ==
    \E out \in {RunProcess(process, manuscripts, R, T, noise)} :
        /\ last' = [Blank EXCEPT !.op = "policy",
                                 !.process = process,
                                 !.threshold = T,
                                 !.number_of_reviews = R,
                                 !.imprecision_error_sd = sd1,
                                 !.other_error_sd = sd2,
                                 !.noise = noise,
                                 !.reviews = out.reviews,
                                 !.scores = out.scores,
                                 !.decisions = out.decisions,
                                 !.result = out.decisions,
                                 !.start = at]
        /\ UNCHANGED manuscripts

AccuracyReturn(process, R, T, sd1, sd2, noise, at) ==
    \E out \in {accuracy_of_process(manuscripts, T, process, R, noise)} :
        /\ last' = [Blank EXCEPT !.op = "accuracy_of_process",
                                 !.process = process,
                                 !.threshold = T,
                                 !.number_of_reviews = R,
                                 !.imprecision_error_sd = sd1,
                                 !.other_error_sd = sd2,
                                 !.noise = noise,
                                 !.reviews = out.run.reviews,
                                 !.scores = out.run.scores,
                                 !.decisions = out.run.decisions,
                                 !.accurate_decisions = out.accurate_decisions,
                                 !.accuracy = out.accuracy,
                                 !.start = at]
        /\ UNCHANGED manuscripts

\* The script has used the result
Consume ==
    /\ ~Idle
    /\ last' = Blank
    /\ UNCHANGED <<manuscripts, rng, seeded, drawn>>

----------------------------------------------------------------------------
(* Spec: the stream is left open, every draw is any value it can yield *)

CreateManuscripts ==
    /\ Idle
    /\ \E n \in (0 - 1)..MaxN, seed \in SeedArgs :
         \E values \in RandintSamples(IF n < 0 THEN 0 ELSE n) :
            CreateReturn(n, seed, values)
    /\ UNCHANGED <<rng, seeded, drawn>>

ReviewManuscripts ==
    /\ Idle
    /\ \E sd1 \in 0..MaxReviewSd, sd2 \in 0..MaxReviewSd :
         \E imp \in NormalSamples(sd1, Len(manuscripts)),
            oth \in NormalSamples(sd2, Len(manuscripts)) :
            ReviewReturn(sd1, sd2, imp, oth, 0)
    /\ UNCHANGED <<rng, seeded, drawn>>

IsAboveThresholdBasedOnAverage ==
    /\ Idle
    /\ \E R \in 1..MaxR, T \in Thresholds, sd1 \in PolicySds, sd2 \in PolicySds :
         /\ Len(manuscripts) * R <= MaxCells
         /\ \E noise \in NoiseRounds(Len(manuscripts), R, sd1, sd2) :
               PolicyReturn("average", R, T, sd1, sd2, noise, 0)
    /\ UNCHANGED <<rng, seeded, drawn>>

IsAboveThresholdBasedOnVote ==
    /\ Idle
    /\ \E R \in 1..MaxR, T \in Thresholds, sd1 \in PolicySds, sd2 \in PolicySds :
         /\ Len(manuscripts) * R <= MaxCells
         /\ \E noise \in NoiseRounds(Len(manuscripts), R, sd1, sd2) :
               PolicyReturn("vote", R, T, sd1, sd2, noise, 0)
    /\ UNCHANGED <<rng, seeded, drawn>>

AccuracyOfProcess ==
    /\ Idle
    /\ \E process \in {"average", "vote"}, R \in 1..MaxR, T \in Thresholds,
          sd1 \in PolicySds, sd2 \in PolicySds :
         /\ Len(manuscripts) * R <= MaxCells
         /\ \E noise \in NoiseRounds(Len(manuscripts), R, sd1, sd2) :
               AccuracyReturn(process, R, T, sd1, sd2, noise, 0)
    /\ UNCHANGED <<rng, seeded, drawn>>

CountVotes ==
    /\ Idle
    /\ \E reviews \in ReviewLists, T \in Thresholds \cup {ExampleThreshold} :
         \E votes \in {count_votes(reviews, T)} :
            last' = [Blank EXCEPT !.op = "count_votes",
                                  !.threshold = T,
                                  !.reviews = reviews,
                                  !.scores = votes,
                                  !.result = votes]
    /\ UNCHANGED <<manuscripts, rng, seeded, drawn>>

Init ==
    /\ manuscripts = << >>
    /\ last = Blank
    /\ rng = 0
    /\ seeded = << >>
    /\ drawn = 0

\* create_manuscripts and review_manuscripts
Next ==
    \/ CreateManuscripts
    \/ ReviewManuscripts
    \/ Consume

Spec == Init /\ [][Next]_vars

\* The policies and the evaluator are run on a batch create_manuscripts has
\* returned: any batch of 0..MaxN scores
InitBatch ==
    /\ manuscripts \in UNION {RandintSamples(n) : n \in 0..MaxN}
    /\ last = Blank
    /\ rng = 0
    /\ seeded = << >>
    /\ drawn = 0

NextAverage ==
    \/ IsAboveThresholdBasedOnAverage
    \/ Consume

SpecAverage == InitBatch /\ [][NextAverage]_vars

NextVote ==
    \/ IsAboveThresholdBasedOnVote
    \/ Consume

SpecVote == InitBatch /\ [][NextVote]_vars

NextAccuracy ==
    \/ AccuracyOfProcess
    \/ Consume

SpecAccuracy == InitBatch /\ [][NextAccuracy]_vars

NextCountVotes ==
    \/ CountVotes
    \/ Consume

SpecCountVotes == Init /\ [][NextCountVotes]_vars

----------------------------------------------------------------------------
(* SpecSeeded: every draw comes from the one global stream *)

SeededCreateManuscripts ==
    /\ Idle
    /\ \E n \in (0 - 1)..MaxN, seed \in SeedArgs, entropy \in RngStates :
         \E state \in {NpRandomSeed(rng, seed, entropy)} :
            /\ CreateReturn(n, seed, StreamRandint(state, IF n < 0 THEN 0 ELSE n))
            /\ rng' = Advance(state, IF n < 0 THEN 0 ELSE n)
            /\ seeded' = IF n < 0 THEN << >> ELSE seed
            /\ drawn' = IF n < 0 THEN 0 ELSE n

SeededReviewManuscripts ==
    /\ Idle
    /\ drawn + 2 * Len(manuscripts) <= MaxDrawn
    /\ \E sd1 \in PolicySds, sd2 \in PolicySds :
         \E noise \in {StreamNoise(rng, Len(manuscripts), 1, sd1, sd2)} :
            ReviewReturn(sd1, sd2, noise[1].imprecision_error,
                         noise[1].other_error, drawn)
    /\ rng' = Advance(rng, 2 * Len(manuscripts))
    /\ drawn' = drawn + 2 * Len(manuscripts)
    /\ UNCHANGED seeded

SeededPolicy ==
    /\ Idle
    /\ \E process \in {"average", "vote"}, R \in 1..MaxR, T \in Thresholds,
          sd1 \in PolicySds, sd2 \in PolicySds :
         /\ drawn + 2 * Len(manuscripts) * R <= MaxDrawn
         /\ PolicyReturn(process, R, T, sd1, sd2,
                         StreamNoise(rng, Len(manuscripts), R, sd1, sd2), drawn)
         /\ rng' = Advance(rng, 2 * Len(manuscripts) * R)
         /\ drawn' = drawn + 2 * Len(manuscripts) * R
    /\ UNCHANGED seeded

SeededAccuracyOfProcess ==
    /\ Idle
    /\ \E process \in {"average", "vote"}, R \in 1..MaxR, T \in Thresholds,
          sd1 \in PolicySds, sd2 \in PolicySds :
         /\ drawn + 2 * Len(manuscripts) * R <= MaxDrawn
         /\ AccuracyReturn(process, R, T, sd1, sd2,
                           StreamNoise(rng, Len(manuscripts), R, sd1, sd2), drawn)
         /\ rng' = Advance(rng, 2 * Len(manuscripts) * R)
         /\ drawn' = drawn + 2 * Len(manuscripts) * R
    /\ UNCHANGED seeded

\* numpy seeds the global generator from the system's entropy at import
InitSeeded ==
    /\ manuscripts = << >>
    /\ last = Blank
    /\ rng \in RngStates
    /\ seeded = << >>
    /\ drawn = 0

NextSeeded ==
    \/ SeededCreateManuscripts
    \/ SeededReviewManuscripts
    \/ SeededPolicy
    \/ SeededAccuracyOfProcess
    \/ Consume

SpecSeeded == InitSeeded /\ [][NextSeeded]_vars

----------------------------------------------------------------------------
(* The claims.  Each is stated from the call's arguments and the draws it  *)
(* took, not with the operators above.                                     *)

N == Len(manuscripts)

IsPolicy(process) == last.op = "policy" /\ last.process = process

\* manuscript i plus round r's two draws, brought into [1, 10]
Clamped(r, i) ==
    LET x == manuscripts[i] + last.noise[r].imprecision_error[i]
                            + last.noise[r].other_error[i]
    IN  IF x < 1 THEN 1 ELSE IF x > 10 THEN 10 ELSE x

\* The rounds whose review of manuscript i reaches the threshold
PassingRounds(i) ==
    Cardinality({r \in 1..Len(last.reviews) : last.reviews[r][i] >= last.threshold})

\* The sum of the reviews of manuscript i over rounds 1..r
RECURSIVE ColumnTotal(_, _)
ColumnTotal(i, r) ==
    IF r = 0 THEN 0 ELSE last.reviews[r][i] + ColumnTotal(i, r - 1)

FloorHalf(R) == CHOOSE k \in 0..R : 2 * k <= R /\ R < 2 * k + 2

\* Every round's review batch is the clamped sum of that round's own draws
RoundsAreFresh ==
    /\ Len(last.reviews) = last.number_of_reviews
    /\ Len(last.noise) = last.number_of_reviews
    /\ \A r \in 1..last.number_of_reviews :
         /\ Len(last.reviews[r]) = N
         /\ \A i \in 1..N : last.reviews[r][i] = Clamped(r, i)

\* C1: with both noise standard deviations 0, accuracy_of_process returns 1.0
\* for every non-empty batch, threshold, number of rounds and policy: the
\* decision equals (manuscript >= T) at every position.
C1_ZeroNoiseAccuracyIsOne ==
    ( /\ last.op = "accuracy_of_process"
      /\ last.imprecision_error_sd = 0
      /\ last.other_error_sd = 0
      /\ N >= 1 )
    => /\ last.accuracy.kind = "float"
       /\ last.accuracy.num = last.accuracy.den
       /\ \A i \in 1..N : last.decisions[i] = (manuscripts[i] >= last.threshold)

\* C2: for an odd number of rounds, a manuscript the vote policy accepts got
\* accepting votes in strictly more than half of the rounds.
C2_OddRoundsTrueMajority ==
    (IsPolicy("vote") /\ last.number_of_reviews % 2 = 1)
    => \A i \in 1..N :
          last.decisions[i] => 2 * PassingRounds(i) > last.number_of_reviews

C4_EmptyBatchAccuracyFails ==
    (last.op = "accuracy_of_process" /\ N = 0) => last.status = "error"

\* C5: create_manuscripts fails for every number_of_manuscripts <= 0 and
\* returns no batch; for every n >= 1 it returns n values, each in 1..10.
C5_CreateRejectsNonPositive ==
    last.op = "create_manuscripts"
    => /\ last.number_of_manuscripts <= 0 =>
            last.status = "error" /\ last.result = << >>
       /\ last.number_of_manuscripts >= 1 =>
            /\ last.status = "ok"
            /\ Len(last.result) = last.number_of_manuscripts
            /\ \A i \in 1..Len(last.result) : last.result[i] \in 1..10

\* C6: review_manuscripts returns a batch as long as its input whose entry i is
\* manuscript i plus both draws, clamped into [1, 10]: below 1 becomes 1, above
\* 10 becomes 10, whatever the size or sign of the draws.
C6_ReviewIsClampedSum ==
    last.op = "review_manuscripts"
    => /\ Len(last.result) = N
       /\ \A i \in 1..N :
            LET x == manuscripts[i] + last.noise[1].imprecision_error[i]
                                    + last.noise[1].other_error[i]
            IN  /\ last.result[i] >= 1
                /\ last.result[i] <= 10
                /\ x < 1 => last.result[i] = 1
                /\ x > 10 => last.result[i] = 10
                /\ (x >= 1 /\ x <= 10) => last.result[i] = x

\* C6 witness: one call in which one sum falls below 1 and another above 10
C6_ClippedBothWays ==
    /\ last.op = "review_manuscripts"
    /\ \E i, j \in 1..N :
         /\ manuscripts[i] + last.noise[1].imprecision_error[i]
                           + last.noise[1].other_error[i] < 1
         /\ manuscripts[j] + last.noise[1].imprecision_error[j]
                           + last.noise[1].other_error[j] > 10
         /\ last.result[i] = 1
         /\ last.result[j] = 10

\* C7: for a batch of n >= 1 manuscripts accuracy_of_process runs the policy
\* once (R review rounds) and returns (positions where the decision equals
\* manuscript >= T) / n, a value in [0, 1]; the ground truth is computed from
\* the manuscripts and T alone.
C7_AccuracyIsAgreementFraction ==
    (last.op = "accuracy_of_process" /\ N >= 1)
    => /\ RoundsAreFresh
       /\ Len(last.decisions) = N
       /\ last.accurate_decisions = [i \in 1..N |-> manuscripts[i] >= last.threshold]
       /\ last.accuracy.kind = "float"
       /\ last.accuracy.den = N
       /\ last.accuracy.num =
            Cardinality({i \in 1..N :
                           last.decisions[i] = (manuscripts[i] >= last.threshold)})
       /\ 0 <= last.accuracy.num
       /\ last.accuracy.num <= last.accuracy.den

\* C7 witness: a noisy run that gets one of two manuscripts right, where a
\* review of a manuscript at or above T fell below T
C7_HalfRight ==
    /\ last.op = "accuracy_of_process"
    /\ N = 2
    /\ last.accuracy.num = 1
    /\ \E i \in 1..N :
         /\ manuscripts[i] >= last.threshold
         /\ last.reviews[1][i] < last.threshold
         /\ ~last.decisions[i]

\* What a run seeded with seeded[1] draws for the last call
SeededRounds == IF last.op = "review_manuscripts" THEN 1 ELSE last.number_of_reviews

SeededNoise ==
    LET start == Advance(SeedState(seeded[1]), last.start)
    IN  [r \in 1..SeededRounds |->
           [imprecision_error |->
              [i \in 1..N |-> last.imprecision_error_sd
                              * Deviate(Advance(start, 2 * N * (r - 1) + i - 1))],
            other_error |->
              [i \in 1..N |-> last.other_error_sd
                              * Deviate(Advance(start, 2 * N * (r - 1) + N + i - 1))]]]

\* C8: after create_manuscripts(n, seed=s) the manuscripts and every later
\* review, decision and accuracy are a function of s, n and the calls made
\* since, whatever was drawn from the stream before; nothing else re-seeds.
C8_SeededRunsReproducible ==
    seeded # << >>
    => /\ manuscripts =
            [i \in 1..N |-> LowScore + (Advance(SeedState(seeded[1]), i - 1)
                                          % (HighScore + 1 - LowScore))]
       /\ rng = Advance(SeedState(seeded[1]), drawn)
       /\ last.op \in {"review_manuscripts", "policy", "accuracy_of_process"} =>
            /\ last.start + 2 * N * SeededRounds = drawn
            /\ last.noise = SeededNoise
            /\ last.op = "review_manuscripts" =>
                 last.result = [i \in 1..N |-> Clamped(1, i)]
            /\ last.op # "review_manuscripts" =>
                 last.decisions =
                    RunProcess(last.process, manuscripts, last.number_of_reviews,
                               last.threshold, SeededNoise).decisions
            /\ last.op = "accuracy_of_process" =>
                 last.accuracy =
                    accuracy_of_process(manuscripts, last.threshold, last.process,
                                        last.number_of_reviews, SeededNoise).accuracy

\* C8 witness: a noisy accuracy run that is not the first call after seeding
C8_LaterSeededCall ==
    /\ seeded # << >>
    /\ last.op = "accuracy_of_process"
    /\ N >= 1
    /\ last.start > N
    /\ last.imprecision_error_sd >= 1
    /\ last.other_error_sd >= 1

\* C9: the average policy reviews the batch R times, each round with its own
\* draws, and accepts manuscript i exactly when the sum of its R clipped
\* reviews is >= R * T, i.e. their mean is >= T.
C9_AverageAcceptsIffMeanReaches ==
    IsPolicy("average")
    => /\ RoundsAreFresh
       /\ Len(last.decisions) = N
       /\ \A i \in 1..N :
            last.decisions[i] <=>
               (ColumnTotal(i, last.number_of_reviews)
                  >= last.number_of_reviews * last.threshold)

\* C9 witness: two rounds that differ, a manuscript accepted on its mean though
\* one of its reviews is below T
C9_MeanCarriesLowRound ==
    /\ IsPolicy("average")
    /\ last.number_of_reviews = 2
    /\ N = 2
    /\ last.reviews[1] # last.reviews[2]
    /\ \E i \in 1..N :
         /\ last.decisions[i]
         /\ \E r \in 1..2 : last.reviews[r][i] < last.threshold

\* C10: count_votes returns, for each position i, the number of rounds r with
\* reviews[r][i] >= T, a count in 0..R, positions in order; the rounds
\* [[1,5,8],[8,8,8],[10,9,1],[10,1,2],[9,9,5]] with T = 7 give [4,3,2].
C10_CountVotesCountsPassingRounds ==
    last.op = "count_votes"
    => /\ Len(last.result) = Len(last.reviews[1])
       /\ \A i \in 1..Len(last.reviews[1]) :
            /\ last.result[i] = PassingRounds(i)
            /\ last.result[i] \in 0..Len(last.reviews)
       /\ (last.reviews = ExampleReviews /\ last.threshold = 7) =>
            last.result = <<4, 3, 2>>

\* C10 witness: the five rounds of the test, counted
C10_TestExample ==
    /\ last.op = "count_votes"
    /\ last.reviews = ExampleReviews
    /\ last.threshold = 7
    /\ last.result = <<4, 3, 2>>

====
